---------------------------- MODULE Spec2Model ----------------------------
(***************************************************************************)
(* Model of checker/views.py: the token diff engine                        *)
(* (find_differences_charwise), the word-level validation and salvage      *)
(* (violates_no_word_add_remove, project_safe_word_corrections), the merge *)
(* reverter (undo_space_merges) and the correction pipeline                *)
(* (correct_with_openai, index).                                           *)
(*                                                                         *)
(* A string is a sequence of characters; a character is a one-element     *)
(* TLA+ string, or a name for a character outside ASCII:                   *)
(*   "a_ring" U+00E5, "A_ring" U+00C5, "comb_ring" U+030A (combining ring  *)
(*   above), "gr_qm" U+037E (Greek question mark, canonically ";").        *)
(* Offsets are zero-based and slices half-open, as in Python.              *)
(***************************************************************************)
EXTENDS Integers, Sequences, FiniteSets, TLC

VARIABLES
    fn,           \* which entry point this run exercises: "diff", "project", "correct"
    pc,           \* position inside the entry point
    original,     \* first argument (original / text)
    corrected,    \* second argument, or the running `corrected` of correct_with_openai
    result,       \* value returned by the function under test
    kinds,        \* what each call to the external service did, in order:
                  \* "raise", "empty" (nothing left after strip) or "text"
    path,         \* which return statement of correct_with_openai was taken
    differences,  \* "differences" of the JSON response of index
    error_count   \* "error_count" of the JSON response of index

vars == <<fn, pc, original, corrected, result, kinds, path, differences, error_count>>

-----------------------------------------------------------------------------
(* Characters and the character classes of Python's re (UNICODE).           *)

LowerSeq == <<"a","b","c","d","e","f","g","h","i","j","k","l","m",
              "n","o","p","q","r","s","t","u","v","w","x","y","z","a_ring">>
UpperSeq == <<"A","B","C","D","E","F","G","H","I","J","K","L","M",
              "N","O","P","Q","R","S","T","U","V","W","X","Y","Z","A_ring">>

LowerLetters == {LowerSeq[i] : i \in 1..Len(LowerSeq)}
UpperLetters == {UpperSeq[i] : i \in 1..Len(UpperSeq)}
Letters      == LowerLetters \cup UpperLetters
Digits       == {"0","1","2","3","4","5","6","7","8","9"}
Spaces       == {" ", "\n", "\r", "\t"}
\* neither \w nor \s: punctuation, and the combining mark (category Mn)
Puncts       == {",", ".", ";", "-", "!", "?", "comb_ring", "gr_qm"}

\* [^\W\d_] : a letter
IsLetter(c) == c \in Letters
\* \w : letter, digit or underscore
IsWordChar(c) == c \in Letters \/ c \in Digits \/ c = "_"
\* \s
IsSpace(c) == c \in Spaces

\* str.lower() on one character
LowerMap == [c \in UpperLetters |-> LowerSeq[CHOOSE i \in 1..Len(UpperSeq) : UpperSeq[i] = c]]
LowerChar(c) == IF c \in UpperLetters THEN LowerMap[c] ELSE c

\* str.lower()
Lower(s) == [i \in 1..Len(s) |-> LowerChar(s[i])]

\* s[i:j] for 0 <= i, j (Python slice, clamped to the string)
Slice(s, i, j) ==
    LET hi == IF j > Len(s) THEN Len(s) ELSE j
    IN  IF i >= hi THEN <<>> ELSE SubSeq(s, i + 1, hi)

RECURSIVE Concat(_)
\* "".join(list)
Concat(ss) == IF ss = <<>> THEN <<>> ELSE Head(ss) \o Concat(Tail(ss))

\* str.strip(): leading and trailing whitespace removed
RECURSIVE LStrip(_)
LStrip(s) == IF s # <<>> /\ IsSpace(Head(s)) THEN LStrip(Tail(s)) ELSE s
RECURSIVE RStrip(_)
RStrip(s) == IF s # <<>> /\ IsSpace(s[Len(s)]) THEN RStrip(SubSeq(s, 1, Len(s) - 1)) ELSE s
Strip(s) == RStrip(LStrip(s))

\* re.sub(r"\s+", "", s)
RemoveSpaces(s) == SelectSeq(s, LAMBDA c : ~IsSpace(c))

-----------------------------------------------------------------------------
(* unicodedata.normalize("NFC", s) on the characters of the model: the     *)
(* singleton U+037E becomes ";", and a/A followed by the combining ring    *)
(* composes to a_ring/A_ring.                                              *)

NFCSingle(c) == IF c = "gr_qm" THEN ";" ELSE c

RECURSIVE NFCCompose(_)
NFCCompose(s) ==
    IF Len(s) < 2 THEN s
    ELSE IF s[2] = "comb_ring" /\ s[1] = "a" THEN <<"a_ring">> \o NFCCompose(SubSeq(s, 3, Len(s)))
    ELSE IF s[2] = "comb_ring" /\ s[1] = "A" THEN <<"A_ring">> \o NFCCompose(SubSeq(s, 3, Len(s)))
    ELSE <<s[1]>> \o NFCCompose(Tail(s))

NFC(s) == NFCCompose([i \in 1..Len(s) |-> NFCSingle(s[i])])

\* .replace("\r\n", "\n").replace("\r", "\n")
RECURSIVE ReplaceCRLF(_)
ReplaceCRLF(s) ==
    IF s = <<>> THEN <<>>
    ELSE IF Len(s) >= 2 /\ s[1] = "\r" /\ s[2] = "\n" THEN <<"\n">> \o ReplaceCRLF(SubSeq(s, 3, Len(s)))
    ELSE <<s[1]>> \o ReplaceCRLF(Tail(s))

ReplaceCR(s) == [i \in 1..Len(s) |-> IF s[i] = "\r" THEN "\n" ELSE s[i]]

NormalizeText(s) == NFC(ReplaceCR(ReplaceCRLF(s)))

-----------------------------------------------------------------------------
(* Tokenizers.  A match is a record [tok, start, end] with                 *)
(* tok = s[start:end].                                                     *)

\* end of the maximal run of characters in class `cls` that starts at offset p
RECURSIVE RunEnd(_, _, _)
RunEnd(s, p, cls) == IF p < Len(s) /\ s[p + 1] \in cls THEN RunEnd(s, p + 1, cls) ELSE p

WordChars == Letters \cup Digits \cup {"_"}

Match(s, p, q) == [tok |-> Slice(s, p, q), start |-> p, end |-> q]

\* token_re = \w+|[^\w\s] ; tokens_with_spans(s)
RECURSIVE TokScan(_, _)
TokScan(s, p) ==
    IF p >= Len(s) THEN <<>>
    ELSE IF IsWordChar(s[p + 1])
         THEN LET q == RunEnd(s, p, WordChars) IN <<Match(s, p, q)>> \o TokScan(s, q)
    ELSE IF IsSpace(s[p + 1]) THEN TokScan(s, p + 1)
    ELSE <<Match(s, p, p + 1)>> \o TokScan(s, p + 1)

tokens_with_spans(s) == TokScan(s, 0)

\* WORD_RE = [^\W\d_]+ ; WORD_RE.finditer(s)
RECURSIVE WordScan(_, _)
WordScan(s, p) ==
    IF p >= Len(s) THEN <<>>
    ELSE IF IsLetter(s[p + 1])
         THEN LET q == RunEnd(s, p, Letters) IN <<Match(s, p, q)>> \o WordScan(s, q)
    ELSE WordScan(s, p + 1)

WORD_RE_finditer(s) == WordScan(s, 0)

Toks(ms) == [i \in 1..Len(ms) |-> ms[i].tok]

\* extract_words(s) = WORD_RE.findall(NFC(s))
extract_words(s) == Toks(WORD_RE_finditer(NFC(s)))

\* WS_TOKEN_RE = \s+|\w+|[^\w\s] ; WS_TOKEN_RE.findall(s)
RECURSIVE WsTokScan(_, _)
WsTokScan(s, p) ==
    IF p >= Len(s) THEN <<>>
    ELSE IF IsSpace(s[p + 1])
         THEN LET q == RunEnd(s, p, Spaces) IN <<Slice(s, p, q)>> \o WsTokScan(s, q)
    ELSE IF IsWordChar(s[p + 1])
         THEN LET q == RunEnd(s, p, WordChars) IN <<Slice(s, p, q)>> \o WsTokScan(s, q)
    ELSE <<Slice(s, p, p + 1)>> \o WsTokScan(s, p + 1)

WS_TOKEN_RE_findall(s) == WsTokScan(s, 0)

-----------------------------------------------------------------------------
(* difflib.SequenceMatcher(a, b, autojunk=False) without junk: the longest *)
(* matching block, the matching blocks, the opcodes and the ratio.         *)

\* length of the common run that ends at a[i], b[j] inside a[alo:], b[blo:]
RECURSIVE BackLen(_, _, _, _, _, _)
BackLen(a, b, i, j, alo, blo) ==
    IF i >= alo /\ j >= blo /\ a[i + 1] = b[j + 1]
    THEN 1 + BackLen(a, b, i - 1, j - 1, alo, blo)
    ELSE 0

\* the inner loop of find_longest_match at row i: j ascending, a block replaces
\* the best one only when it is strictly longer
RECURSIVE FLMRow(_, _, _, _, _, _, _)
FLMRow(a, b, i, j, alo, blo, bhi) ==
    IF j >= bhi THEN [i |-> alo, j |-> blo, size |-> 0]
    ELSE LET k == BackLen(a, b, i, j, alo, blo)
             rest == FLMRow(a, b, i, j + 1, alo, blo, bhi)
         IN  IF k > 0 /\ k >= rest.size THEN [i |-> i - k + 1, j |-> j - k + 1, size |-> k] ELSE rest

\* the outer loop: i ascending; the first longest block found is kept
RECURSIVE FLMScan(_, _, _, _, _, _, _)
FLMScan(a, b, i, alo, ahi, blo, bhi) ==
    IF i >= ahi THEN [i |-> alo, j |-> blo, size |-> 0]
    ELSE LET here == FLMRow(a, b, i, blo, alo, blo, bhi)
             rest == FLMScan(a, b, i + 1, alo, ahi, blo, bhi)
         IN  IF here.size > 0 /\ here.size >= rest.size THEN here ELSE rest

find_longest_match(a, b, alo, ahi, blo, bhi) == FLMScan(a, b, alo, alo, ahi, blo, bhi)

\* the recursion of get_matching_blocks, in sorted order
RECURSIVE BlocksIn(_, _, _, _, _, _)
BlocksIn(a, b, alo, ahi, blo, bhi) ==
    IF alo >= ahi \/ blo >= bhi THEN <<>>
    ELSE LET m == find_longest_match(a, b, alo, ahi, blo, bhi) IN
         IF m.size = 0 THEN <<>>
         ELSE BlocksIn(a, b, alo, m.i, blo, m.j) \o <<m>>
              \o BlocksIn(a, b, m.i + m.size, ahi, m.j + m.size, bhi)

\* adjacent blocks collapsed into one
RECURSIVE CollapseBlocks(_)
CollapseBlocks(bs) ==
    IF Len(bs) < 2 THEN bs
    ELSE LET x == bs[1]  y == bs[2] IN
         IF x.i + x.size = y.i /\ x.j + x.size = y.j
         THEN CollapseBlocks(<<[i |-> x.i, j |-> x.j, size |-> x.size + y.size]>> \o SubSeq(bs, 3, Len(bs)))
         ELSE <<x>> \o CollapseBlocks(Tail(bs))

\* get_matching_blocks(): the blocks, then the sentinel (len(a), len(b), 0)
get_matching_blocks(a, b) ==
    CollapseBlocks(BlocksIn(a, b, 0, Len(a), 0, Len(b)))
        \o <<[i |-> Len(a), j |-> Len(b), size |-> 0]>>

Opcode(tag, i1, i2, j1, j2) == [tag |-> tag, i1 |-> i1, i2 |-> i2, j1 |-> j1, j2 |-> j2]

RECURSIVE OpcodesFrom(_, _, _)
OpcodesFrom(bs, i, j) ==
    IF bs = <<>> THEN <<>>
    ELSE LET m == Head(bs)
             tag == IF i < m.i /\ j < m.j THEN "replace"
                    ELSE IF i < m.i THEN "delete"
                    ELSE IF j < m.j THEN "insert"
                    ELSE ""
             change == IF tag = "" THEN <<>> ELSE <<Opcode(tag, i, m.i, j, m.j)>>
             equal  == IF m.size > 0
                       THEN <<Opcode("equal", m.i, m.i + m.size, m.j, m.j + m.size)>>
                       ELSE <<>>
         IN  change \o equal \o OpcodesFrom(Tail(bs), m.i + m.size, m.j + m.size)

\* get_opcodes()
get_opcodes(a, b) == OpcodesFrom(get_matching_blocks(a, b), 0, 0)

RECURSIVE SumSizes(_)
SumSizes(bs) == IF bs = <<>> THEN 0 ELSE Head(bs).size + SumSizes(Tail(bs))

\* ratio() >= pct/100, where ratio() = 2.0 * matches / (len(a) + len(b)), or 1.0
\* when both are empty
RatioAtLeast(a, b, pct) ==
    LET total == Len(a) + Len(b) IN
    IF total = 0 THEN pct <= 100
    ELSE 200 * SumSizes(get_matching_blocks(a, b)) >= pct * total

-----------------------------------------------------------------------------
(* find_differences_charwise                                               *)

MaxOpTokens == 14
MaxOpChars == 180
SimilarityPct == 55
TinyDeleteLen == 2
GroupGap == 2

\* span_for_token_range with the index clamped to the last token instead of the
\* end-of-text case
span_for_token_range_clamped(spans, i1, i2, text_len) ==
    IF spans = <<>> THEN [start |-> 0, end |-> 0]
    ELSE IF i1 >= Len(spans) THEN [start |-> spans[Len(spans)].start, end |-> spans[Len(spans)].start]
    ELSE IF i1 = i2 THEN [start |-> spans[i1 + 1].start, end |-> spans[i1 + 1].start]
    ELSE [start |-> spans[i1 + 1].start, end |-> spans[i2].end]

\* char span from the first token's start to the last token's end
span_for_token_range(spans, i1, i2, text_len) ==
    IF spans = <<>> THEN [start |-> 0, end |-> 0]
    ELSE IF i1 >= Len(spans) THEN [start |-> text_len, end |-> text_len]
    ELSE IF i1 = i2 THEN [start |-> spans[i1 + 1].start, end |-> spans[i1 + 1].start]
    ELSE [start |-> spans[i1 + 1].start, end |-> spans[i2].end]

\* remove whitespace only, lowercased
norm_no_space(s) == RemoveSpaces(Lower(s))

\* similarity(a, b) >= SimilarityPct / 100
similar(a, b) == RatioAtLeast(a, b, SimilarityPct)

\* re.fullmatch(r"[^\w\s]+", s)
is_pure_punct(s) == s # <<>> /\ \A i \in 1..Len(s) : ~IsWordChar(s[i]) /\ ~IsSpace(s[i])

\* accept_replace without the similarity test
accept_replace_join_only(o_chunk, c_chunk) == norm_no_space(o_chunk) = norm_no_space(c_chunk)

\* the condition under which a replace opcode is surfaced
accept_replace(o_chunk, c_chunk) ==
    norm_no_space(o_chunk) = norm_no_space(c_chunk) \/ similar(Lower(o_chunk), Lower(c_chunk))

\* accept_insert without the punctuation test
accept_insert_any(c_chunk) == c_chunk # <<>>

\* the condition under which an insert opcode is surfaced
accept_insert(c_chunk) == c_chunk # <<>> /\ is_pure_punct(c_chunk)

\* the condition under which a delete opcode is surfaced
accept_delete(o_chunk) ==
    o_chunk # <<>> /\ (is_pure_punct(o_chunk) \/ Len(Strip(o_chunk)) <= TinyDeleteLen)

\* where an insert record is placed, given the span of the original token range
insert_pos(o_span) == o_span.start

Diff(type, start, end, o, sug, cs, ce) ==
    [type |-> type, start |-> start, end |-> end, original |-> o, suggestion |-> sug,
     c_start |-> cs, c_end |-> ce]

\* raw_diff_of without the `continue` on equal opcodes, which then reach the last
\* branch
raw_diff_of_noskip(op, orig_text, corr_text, orig_spans, corr_spans) ==
    LET o == span_for_token_range(orig_spans, op.i1, op.i2, Len(orig_text))
        c == span_for_token_range(corr_spans, op.j1, op.j2, Len(corr_text))
        o_chunk == Slice(orig_text, o.start, o.end)
        c_chunk == Slice(corr_text, c.start, c.end)
    IN  IF op.tag = "replace"
             THEN IF accept_replace(o_chunk, c_chunk)
                  THEN <<Diff("replace", o.start, o.end, o_chunk, c_chunk, c.start, c.end)>>
                  ELSE <<>>
        ELSE IF op.tag = "insert"
             THEN IF accept_insert(c_chunk)
                  THEN <<Diff("insert", insert_pos(o), insert_pos(o), <<>>, c_chunk, c.start, c.end)>>
                  ELSE <<>>
        ELSE IF accept_delete(o_chunk)
             THEN <<Diff("delete", o.start, o.end, o_chunk, <<>>, c.start, c.end)>>
             ELSE <<>>

\* the body of the loop over the opcodes: the raw diffs one opcode contributes
raw_diff_of(op, orig_text, corr_text, orig_spans, corr_spans) ==
    LET o == span_for_token_range(orig_spans, op.i1, op.i2, Len(orig_text))
        c == span_for_token_range(corr_spans, op.j1, op.j2, Len(corr_text))
        o_chunk == Slice(orig_text, o.start, o.end)
        c_chunk == Slice(corr_text, c.start, c.end)
    IN  IF op.tag = "equal" THEN <<>>
        ELSE IF (op.i2 - op.i1) + (op.j2 - op.j1) > MaxOpTokens THEN <<>>
        ELSE IF Len(o_chunk) + Len(c_chunk) > MaxOpChars THEN <<>>
        ELSE IF op.tag = "replace"
             THEN IF accept_replace(o_chunk, c_chunk)
                  THEN <<Diff("replace", o.start, o.end, o_chunk, c_chunk, c.start, c.end)>>
                  ELSE <<>>
        ELSE IF op.tag = "insert"
             THEN IF accept_insert(c_chunk)
                  THEN <<Diff("insert", insert_pos(o), insert_pos(o), <<>>, c_chunk, c.start, c.end)>>
                  ELSE <<>>
        ELSE IF accept_delete(o_chunk)
             THEN <<Diff("delete", o.start, o.end, o_chunk, <<>>, c.start, c.end)>>
             ELSE <<>>

RECURSIVE raw_diffs_of(_, _, _, _, _)
raw_diffs_of(ops, orig_text, corr_text, orig_spans, corr_spans) ==
    IF ops = <<>> THEN <<>>
    ELSE raw_diff_of(Head(ops), orig_text, corr_text, orig_spans, corr_spans)
         \o raw_diffs_of(Tail(ops), orig_text, corr_text, orig_spans, corr_spans)

\* key=lambda d: (d["start"], d["end"])
KeyLeq(x, y) == x.start < y.start \/ (x.start = y.start /\ x.end <= y.end)

\* insertion of d into a sorted list, after the elements whose key is not larger
RECURSIVE InsertSorted(_, _)
InsertSorted(ds, d) ==
    IF ds = <<>> THEN <<d>>
    ELSE IF KeyLeq(Head(ds), d) THEN <<Head(ds)>> \o InsertSorted(Tail(ds), d)
    ELSE <<d>> \o ds

\* raw_diffs.sort(key=...): a stable sort
RECURSIVE sort_diffs(_)
sort_diffs(ds) ==
    IF ds = <<>> THEN <<>>
    ELSE InsertSorted(sort_diffs(SubSeq(ds, 1, Len(ds) - 1)), ds[Len(ds)])

Min2(x, y) == IF x <= y THEN x ELSE y
Max2(x, y) == IF x >= y THEN x ELSE y

\* prev merged with d: the spans united, the chunks rebuilt, the type "replace"
merge_diffs(prev, d, orig_text, corr_text) ==
    LET end   == Max2(prev.end, d.end)
        start == Min2(prev.start, d.start)
        cs    == Min2(prev.c_start, d.c_start)
        ce    == Max2(prev.c_end, d.c_end)
    IN  Diff("replace", start, end, Slice(orig_text, start, end), Slice(corr_text, cs, ce), cs, ce)

\* whether d is merged into prev: only whitespace between them, and close
should_group(prev, d, orig_text) ==
    Strip(Slice(orig_text, prev.end, d.start)) = <<>> /\ d.start <= prev.end + GroupGap

RECURSIVE group_diffs(_, _, _, _)
\* grouped: the list built so far; ds: the raw diffs still to place
group_diffs(grouped, ds, orig_text, corr_text) ==
    IF ds = <<>> THEN grouped
    ELSE LET prev == grouped[Len(grouped)]
             d == Head(ds)
         IN  IF should_group(prev, d, orig_text)
             THEN group_diffs(SubSeq(grouped, 1, Len(grouped) - 1)
                                \o <<merge_diffs(prev, d, orig_text, corr_text)>>,
                              Tail(ds), orig_text, corr_text)
             ELSE group_diffs(grouped \o <<d>>, Tail(ds), orig_text, corr_text)

DedupeKey(d) == <<d.start, d.end, d.suggestion>>

\* Edit with the end offset taken from the corrected text
Edit_c_end(d) == [type |-> d.type, start |-> d.start, end |-> d.c_end,
                  original |-> d.original, suggestion |-> d.suggestion]

\* the record handed to the frontend
Edit(d) == [type |-> d.type, start |-> d.start, end |-> d.end,
            original |-> d.original, suggestion |-> d.suggestion]

RECURSIVE dedupe_diffs(_, _)
dedupe_diffs(ds, seen) ==
    IF ds = <<>> THEN <<>>
    ELSE IF DedupeKey(Head(ds)) \in seen THEN dedupe_diffs(Tail(ds), seen)
    ELSE <<Edit(Head(ds))>> \o dedupe_diffs(Tail(ds), seen \cup {DedupeKey(Head(ds))})

\* sm = difflib.SequenceMatcher(a=orig_tokens, b=corr_tokens, autojunk=False)
diff_opcodes(orig_tokens, corr_tokens) == get_opcodes(orig_tokens, corr_tokens)

find_differences_charwise(orig, corr) ==
    LET orig_text == NormalizeText(orig)
        corr_text == NormalizeText(corr)
        orig_spans == tokens_with_spans(orig_text)
        corr_spans == tokens_with_spans(corr_text)
        ops == diff_opcodes(Toks(orig_spans), Toks(corr_spans))
        raw_diffs == raw_diffs_of(ops, orig_text, corr_text, orig_spans, corr_spans)
        sorted == sort_diffs(raw_diffs)
    IN  IF orig_text = <<>> /\ corr_text = <<>> THEN <<>>
        ELSE IF raw_diffs = <<>> THEN <<>>
        ELSE dedupe_diffs(group_diffs(<<sorted[1]>>, Tail(sorted), orig_text, corr_text), {})

-----------------------------------------------------------------------------
(* is_small_word_edit, violates_no_word_add_remove,                        *)
(* project_safe_word_corrections                                           *)

ShortWordLen == 3
ShortWordPct == 90
NormalWordPct == 70

is_small_word_edit(a, b) ==
    LET a0 == Lower(a)
        b0 == Lower(b)
    IN  IF a0 = b0 THEN TRUE
        ELSE IF Max2(Len(a0), Len(b0)) <= ShortWordLen THEN RatioAtLeast(a0, b0, ShortWordPct)
        ELSE RatioAtLeast(a0, b0, NormalWordPct)

violates_no_word_add_remove(orig, corr) ==
    LET ow == extract_words(orig)
        cw == extract_words(corr)
    IN  IF Len(ow) # Len(cw) THEN TRUE
        ELSE \E i \in 1..Len(ow) : ~is_small_word_edit(ow[i], cw[i])

LowerAll(ws) == [i \in 1..Len(ws) |-> Lower(ws[i])]

\* the replacement (start, end, new_word) an opcode contributes, if any
rep_of(op, orig_matches, corr_words) ==
    IF op.tag = "replace" /\ op.i2 - op.i1 = 1 /\ op.j2 - op.j1 = 1
       /\ is_small_word_edit(orig_matches[op.i1 + 1].tok, corr_words[op.j1 + 1])
    THEN <<[start |-> orig_matches[op.i1 + 1].start, end |-> orig_matches[op.i1 + 1].end,
            word |-> corr_words[op.j1 + 1]]>>
    ELSE <<>>

RECURSIVE reps_of(_, _, _)
reps_of(ops, orig_matches, corr_words) ==
    IF ops = <<>> THEN <<>>
    ELSE rep_of(Head(ops), orig_matches, corr_words) \o reps_of(Tail(ops), orig_matches, corr_words)

\* sorted(reps, key=lambda x: x[0], reverse=True): stable, by start descending
RECURSIVE InsertByStartDesc(_, _)
InsertByStartDesc(rs, r) ==
    IF rs = <<>> THEN <<r>>
    ELSE IF Head(rs).start >= r.start THEN <<Head(rs)>> \o InsertByStartDesc(Tail(rs), r)
    ELSE <<r>> \o rs

RECURSIVE sort_reps_desc(_)
sort_reps_desc(rs) ==
    IF rs = <<>> THEN <<>>
    ELSE InsertByStartDesc(sort_reps_desc(SubSeq(rs, 1, Len(rs) - 1)), rs[Len(rs)])

\* splice that drops one character more than the word
splice_off_by_one(out, r) == Slice(out, 0, r.start) \o r.word \o Slice(out, r.end + 1, Len(out))

\* out = out[:s] + nw + out[e:]
splice(out, r) == Slice(out, 0, r.start) \o r.word \o Slice(out, r.end, Len(out))

RECURSIVE apply_reps(_, _)
apply_reps(out, rs) == IF rs = <<>> THEN out ELSE apply_reps(splice(out, Head(rs)), Tail(rs))

\* what is returned when there is nothing to replace
unchanged_result(original_arg, orig) == original_arg

project_safe_word_corrections(original_arg, corrected_arg) ==
    LET orig == NFC(original_arg)
        corr == NFC(corrected_arg)
        orig_matches == WORD_RE_finditer(orig)
        corr_words == extract_words(corr)
        orig_words == Toks(orig_matches)
        reps == reps_of(get_opcodes(LowerAll(orig_words), LowerAll(corr_words)),
                        orig_matches, corr_words)
    IN  IF orig_words = <<>> \/ corr_words = <<>> THEN unchanged_result(original_arg, orig)
        ELSE IF reps = <<>> THEN unchanged_result(original_arg, orig)
        ELSE apply_reps(orig, sort_reps_desc(reps))

-----------------------------------------------------------------------------
(* undo_space_merges                                                       *)

max_merge_words == 3

is_ws(t) == t # <<>> /\ \A i \in 1..Len(t) : IsSpace(t[i])
is_word(t) == t # <<>> /\ \A i \in 1..Len(t) : IsLetter(t[i])

\* indices (zero-based) of the tokens of `full` that are not whitespace
sig_map(full) == SelectSeq([i \in 1..Len(full) |-> i - 1], LAMBDA i : ~is_ws(full[i + 1]))
sig_toks(full) == SelectSeq(full, LAMBDA t : ~is_ws(t))

\* the replacement an opcode contributes: <<corr_full_index, replacement_str>>
merge_rep_of(op, orig_full, orig_sig, orig_map, corr_sig, corr_map) ==
    LET n == op.i2 - op.i1
        corr_tok == corr_sig[op.j1 + 1]
        words == SubSeq(orig_sig, op.i1 + 1, op.i2)
        between == SubSeq(orig_full, orig_map[op.i1 + 1] + 1, orig_map[op.i2] + 1)
    IN  IF op.tag # "replace" THEN <<>>
        ELSE IF op.j2 - op.j1 # 1 THEN <<>>
        ELSE IF ~(2 <= n /\ n <= max_merge_words) THEN <<>>
        ELSE IF ~is_word(corr_tok) THEN <<>>
        ELSE IF \E i \in 1..Len(words) : ~is_word(words[i]) THEN <<>>
        ELSE IF Lower(Concat(words)) # Lower(corr_tok) THEN <<>>
        ELSE IF Len(SelectSeq(between, LAMBDA t : ~is_ws(t))) # n THEN <<>>
        ELSE <<[idx |-> corr_map[op.j1 + 1], rep |-> Concat(between)]>>

RECURSIVE merge_reps_of(_, _, _, _, _, _)
merge_reps_of(ops, orig_full, orig_sig, orig_map, corr_sig, corr_map) ==
    IF ops = <<>> THEN <<>>
    ELSE merge_rep_of(Head(ops), orig_full, orig_sig, orig_map, corr_sig, corr_map)
         \o merge_reps_of(Tail(ops), orig_full, orig_sig, orig_map, corr_sig, corr_map)

\* corr_full[idx] = rep for every replacement
RECURSIVE apply_merge_reps(_, _)
apply_merge_reps(corr_full, rs) ==
    IF rs = <<>> THEN corr_full
    ELSE apply_merge_reps([corr_full EXCEPT ![Head(rs).idx + 1] = Head(rs).rep], Tail(rs))

undo_space_merges(original_arg, corrected_arg) ==
    LET orig_full == WS_TOKEN_RE_findall(NFC(original_arg))
        corr_full == WS_TOKEN_RE_findall(NFC(corrected_arg))
        orig_sig == sig_toks(orig_full)
        corr_sig == sig_toks(corr_full)
        replacements == merge_reps_of(get_opcodes(LowerAll(orig_sig), LowerAll(corr_sig)),
                                      orig_full, orig_sig, sig_map(orig_full),
                                      corr_sig, sig_map(corr_full))
    IN  IF original_arg = <<>> \/ corrected_arg = <<>> THEN corrected_arg
        ELSE IF replacements = <<>> THEN corrected_arg
        ELSE Concat(apply_merge_reps(corr_full, replacements))

-----------------------------------------------------------------------------
(* correct_with_openai, between two calls to the external service.  A      *)
(* response is the content of the first choice (a string), or RAISE when   *)
(* the call raises.                                                        *)

RAISE == <<"RAISE">>

\* call_llm: (content or "").strip()
call_llm(resp) == Strip(resp)

KindOf(resp) == IF resp = RAISE THEN "raise" ELSE IF call_llm(resp) = <<>> THEN "empty" ELSE "text"

\* an exception handler that returns the correction made so far
on_exception_keep(text, corr) == corr

\* except Exception: return text
on_exception(text, corr) == text

\* if not corrected: return text
on_empty_first(text) == text

\* step 2 is entered when the first result equals the input up to outer whitespace
needs_nudge(text, corr) == Strip(corr) = Strip(text)

\* salvaged if salvaged else text
salvage(text, corr) ==
    LET salvaged == project_safe_word_corrections(text, corr)
    IN  IF salvaged # <<>> THEN salvaged ELSE text

-----------------------------------------------------------------------------
(* Inputs.  The strings of a run are concatenations of a few pieces.       *)

MaxDiffPieces == 3
MaxWordPieces == 3
MaxTextPieces == 2
MaxRespPieces == 2
MaxUndoPieces == 3

RECURSIVE StringsOver(_, _)
\* the concatenations of at most n pieces
StringsOver(pieces, n) ==
    IF n = 0 THEN {<<>>}
    ELSE LET shorter == StringsOver(pieces, n - 1)
         IN  shorter \cup {s \o p : s \in shorter, p \in pieces}

DiffPieces == {<<"a">>, <<",">>, <<" ">>, <<"\r">>}
DiffStrings == StringsOver(DiffPieces, MaxDiffPieces)

\* the examples of the specification, an original with a Windows line ending, and
\* strings that are not in NFC
DiffExamples ==
    { <<<<"a","l","t"," ","f","o","r">>, <<"a","l","t","f","o","r">>>>,
      <<<<"H","e","i"," ","d","e","r">>, <<"H","e","i",","," ","d","e","r">>>>,
      <<<<"t","e","k","s","t">>, <<"t","e","k","k","s","t">>>>,
      <<<<"a","\r","\n",",">>, <<"a","\r","\n">>>>,
      <<<<"a_ring",",">>, <<"a","comb_ring">>>>,
      <<<<"gr_qm","A">>, <<"gr_qm","a">>>> }

WordPieces == {<<"a","a","a">>, <<"b">>, <<" ">>, <<"comb_ring">>}
WordStrings == StringsOver(WordPieces, MaxWordPieces)

ProjectExamples ==
    { <<<<"gr_qm","1">>, <<>>>>,
      <<<<"a","a","a","b"," ","1",","," ","a","a","a","a">>, <<"a","a","a","a"," ","a","a","a","b">>>> }

TextPieces == {<<"a","a","a","b">>, <<"c">>, <<" ","c">>}
\* a text whose word is followed by a combining mark
TextExamples == { <<"a","a","a","b","comb_ring","c">> }
Texts == StringsOver(TextPieces, MaxTextPieces) \cup TextExamples

RespPieces == {<<"a","a","a">>, <<"c">>, <<" ","c">>}
\* a response with one word corrected and one word added
RespExamples == { <<"a","a","a"," ","c"," ","d">> }
Responses == StringsOver(RespPieces, MaxRespPieces) \cup RespExamples \cup {RAISE}

UndoPieces == {<<"i">>, <<" ","d","a","g">>, <<" ","i">>, <<"i","d","a","g">>}
UndoStrings == StringsOver(UndoPieces, MaxUndoPieces)

\* the examples of the docstring, a merge of three words, a merge across a line
\* break, a merge that changes case, and a hyphenation after a combining mark
UndoExamples ==
    { <<<<"a","l","t"," ","f","o","r">>, <<"a","l","t","f","o","r">>>>,
      <<<<"e"," ","-"," ","p","o","s","t","e","r">>, <<"e","-","p","o","s","t","e","r">>>>,
      <<<<"p","a"," ","t","o"," ","a","v",".">>, <<"p","a","t","o","a","v",".">>>>,
      <<<<"A","l","t","\n","f","o","r">>, <<"a","l","t","f","o","r">>>>,
      <<<<"a","comb_ring"," ","-"," ","i">>, <<"a","comb_ring","-","i">>>> }

-----------------------------------------------------------------------------
(* The state machine.                                                      *)

NoPipeline == kinds = <<>> /\ path = "" /\ differences = <<>> /\ error_count = 0

InitDiff ==
    /\ fn = "diff" /\ pc = "call"
    /\ \E pair \in (DiffStrings \X DiffStrings) \cup DiffExamples :
          original = pair[1] /\ corrected = pair[2]
    /\ result = <<>>
    /\ NoPipeline

InitProject ==
    /\ fn = "project" /\ pc = "call"
    /\ \E pair \in (WordStrings \X WordStrings) \cup ProjectExamples :
          original = pair[1] /\ corrected = pair[2]
    /\ result = <<>>
    /\ NoPipeline

InitCorrect ==
    /\ fn = "index" /\ pc = "entry"
    /\ original \in Texts
    /\ corrected = <<>>
    /\ result = <<>>
    /\ NoPipeline

InitUndo ==
    /\ fn = "undo" /\ pc = "call"
    /\ \E pair \in (UndoStrings \X UndoStrings) \cup UndoExamples :
          original = pair[1] /\ corrected = pair[2]
    /\ result = <<>>
    /\ NoPipeline

Init == InitDiff \/ InitProject \/ InitCorrect \/ InitUndo

\* find_differences_charwise(original, corrected) is called and returns
DiffCall ==
    /\ fn = "diff" /\ pc = "call"
    /\ result' = find_differences_charwise(original, corrected)
    /\ pc' = "done"
    /\ UNCHANGED <<fn, original, corrected, kinds, path, differences, error_count>>

\* project_safe_word_corrections(original, corrected) is called and returns
ProjectCall ==
    /\ fn = "project" /\ pc = "call"
    /\ result' = project_safe_word_corrections(original, corrected)
    /\ pc' = "done"
    /\ UNCHANGED <<fn, original, corrected, kinds, path, differences, error_count>>

\* undo_space_merges(original, corrected) is called and returns
UndoCall ==
    /\ fn = "undo" /\ pc = "call"
    /\ result' = undo_space_merges(original, corrected)
    /\ pc' = "done"
    /\ UNCHANGED <<fn, original, corrected, kinds, path, differences, error_count>>

\* index, blank text: the empty JSON response, and no call to the service
IndexBlank ==
    /\ fn = "index" /\ pc = "entry"
    /\ Strip(original) = <<>>
    /\ pc' = "responded"
    /\ path' = "blank"
    /\ result' = <<>>
    /\ differences' = <<>>
    /\ error_count' = 0
    /\ UNCHANGED <<fn, original, corrected, kinds>>

\* correct_with_openai(text) is entered: by index when the text is not blank,
\* or directly
Enter ==
    /\ fn = "index" /\ pc = "entry"
    /\ pc' = "first"
    /\ UNCHANGED <<fn, original, corrected, result, kinds, path, differences, error_count>>

Return(value, by) ==
    /\ pc' = "returned"
    /\ result' = value
    /\ path' = by

\* step 3 on, up to the strict call: return corrected, or go on to the strict retry
Validate(corr, by) ==
    IF violates_no_word_add_remove(original, corr)
    THEN pc' = "strict" /\ UNCHANGED <<result, path>>
    ELSE Return(corr, by)

\* step 1: the first call, and the code up to the next call or return
FirstAttempt(resp) ==
    /\ pc = "first"
    /\ kinds' = Append(kinds, KindOf(resp))
    /\ IF resp = RAISE
       THEN Return(on_exception(original, corrected), "except") /\ UNCHANGED corrected
       ELSE IF call_llm(resp) = <<>>
       THEN Return(on_empty_first(original), "empty") /\ UNCHANGED corrected
       ELSE LET corr == undo_space_merges(original, call_llm(resp)) IN
            /\ corrected' = corr
            /\ IF needs_nudge(original, corr)
               THEN pc' = "nudge" /\ UNCHANGED <<result, path>>
               ELSE Validate(corr, "first")
    /\ UNCHANGED <<fn, original, differences, error_count>>

\* step 2: the nudge call, and the code up to the next call or return
NudgeRetry(resp) ==
    /\ pc = "nudge"
    /\ kinds' = Append(kinds, KindOf(resp))
    /\ IF resp = RAISE
       THEN Return(on_exception(original, corrected), "except") /\ UNCHANGED corrected
       ELSE LET corr == IF call_llm(resp) # <<>>
                        THEN undo_space_merges(original, call_llm(resp))
                        ELSE corrected
            IN  /\ corrected' = corr
                /\ Validate(corr, "nudge")
    /\ UNCHANGED <<fn, original, differences, error_count>>

\* step 3 and 4: the strict call, then the strict result or the salvage
StrictRetry(resp) ==
    /\ pc = "strict"
    /\ kinds' = Append(kinds, KindOf(resp))
    /\ IF resp = RAISE
       THEN Return(on_exception(original, corrected), "except")
       ELSE LET corrected2 == IF call_llm(resp) # <<>>
                              THEN undo_space_merges(original, call_llm(resp))
                              ELSE <<>>
            IN  IF corrected2 # <<>> /\ ~violates_no_word_add_remove(original, corrected2)
                THEN Return(corrected2, "strict")
                ELSE Return(salvage(original, IF corrected2 # <<>> THEN corrected2 ELSE corrected),
                            "salvage")
    /\ UNCHANGED <<fn, original, corrected, differences, error_count>>

\* index: the differences of the text and the returned correction
IndexRespond ==
    /\ pc = "returned"
    /\ Strip(original) # <<>>
    /\ differences' = find_differences_charwise(original, result)
    /\ error_count' = Len(differences')
    /\ pc' = "responded"
    /\ UNCHANGED <<fn, original, corrected, result, kinds, path>>

NextDiff == DiffCall
NextProject == ProjectCall
NextCorrect ==
    \/ IndexBlank
    \/ Enter
    \/ \E resp \in Responses : FirstAttempt(resp)
    \/ \E resp \in Responses : NudgeRetry(resp)
    \/ \E resp \in Responses : StrictRetry(resp)
    \/ IndexRespond

NextUndo == UndoCall

Next == NextDiff \/ NextProject \/ NextCorrect \/ NextUndo

SpecDiff == InitDiff /\ [][NextDiff]_vars
SpecProject == InitProject /\ [][NextProject]_vars
SpecCorrect == InitCorrect /\ [][NextCorrect]_vars
SpecUndo == InitUndo /\ [][NextUndo]_vars
Spec == Init /\ [][Next]_vars

-----------------------------------------------------------------------------
(* Properties of find_differences_charwise (SpecDiff).                     *)

DiffDone == fn = "diff" /\ pc = "done"

AltFor      == <<"a","l","t"," ","f","o","r">>
AltforJoined == <<"a","l","t","f","o","r">>
HeiDer      == <<"H","e","i"," ","d","e","r">>
HeiCommaDer == <<"H","e","i",","," ","d","e","r">>

OrigText  == NormalizeText(original)
CorrText  == NormalizeText(corrected)
OrigSpans == tokens_with_spans(OrigText)
CorrSpans == tokens_with_spans(CorrText)
Ops       == get_opcodes(Toks(OrigSpans), Toks(CorrSpans))
OpSet     == {Ops[i] : i \in 1..Len(Ops)}
Records   == {result[i] : i \in 1..Len(result)}

OSpan(op)  == span_for_token_range(OrigSpans, op.i1, op.i2, Len(OrigText))
CSpan(op)  == span_for_token_range(CorrSpans, op.j1, op.j2, Len(CorrText))
OChunk(op) == Slice(OrigText, OSpan(op).start, OSpan(op).end)
CChunk(op) == Slice(CorrText, CSpan(op).start, CSpan(op).end)

MultiTokenReplaces ==
    {op \in OpSet : op.tag = "replace" /\ (op.i2 - op.i1 > 1 \/ op.j2 - op.j1 > 1)}

\* the record a replace opcode is surfaced as
SurfacedAsReplace(op) ==
    [type |-> "replace", start |-> OSpan(op).start, end |-> OSpan(op).end,
     original |-> OChunk(op), suggestion |-> CChunk(op)] \in Records

C2_SpanValidity ==
    DiffDone =>
        \A r \in Records :
            /\ 0 <= r.start /\ r.start <= r.end /\ r.end <= Len(original)
            /\ Slice(original, r.start, r.end) = r.original

\* C3: the returned list is sorted by start, and consecutive records do not overlap.
C3_SortedDisjoint ==
    DiffDone =>
        \A i \in 1..(Len(result) - 1) :
            result[i].start <= result[i + 1].start /\ result[i].end <= result[i + 1].start

C3_Witness == DiffDone /\ Len(result) >= 2

\* C4: the diff of a string with itself is empty.
C4_NoOp == (DiffDone /\ original = corrected) => result = <<>>

C4_Witness == DiffDone /\ original = corrected /\ Len(OrigSpans) >= 2

\* C5, as claimed: diff("Hei der", "Hei, der") is one insert of "," at offset 3,
\* and every insert record sits at the end of an original token (or at offset 0).
C5_InsertAfterPrecedingToken ==
    DiffDone =>
        /\ (original = HeiDer /\ corrected = HeiCommaDer) =>
              result = <<[type |-> "insert", start |-> 3, end |-> 3,
                          original |-> <<>>, suggestion |-> <<",">>]>>
        /\ \A r \in Records :
              r.type = "insert" =>
                  r.start = 0 \/ \E i \in 1..Len(OrigSpans) : OrigSpans[i].end = r.start

\* C6: every record satisfies the invariant of its type.
C6_TypeInvariant ==
    DiffDone =>
        \A r \in Records :
            /\ r.type \in {"insert", "delete", "replace"}
            /\ r.type = "insert" => (r.start = r.end /\ r.original = <<>>)
            /\ r.type = "delete" => r.suggestion = <<>>
            /\ r.type = "replace" => (r.original # <<>> /\ r.suggestion # <<>>)

C6_Witness ==
    DiffDone /\ (\E r \in Records : r.type = "insert") /\ (\E r \in Records : r.type = "delete")

HasWordChar(s) == \E i \in 1..Len(s) : IsWordChar(s[i])

WordInserts == {op \in OpSet : op.tag = "insert" /\ HasWordChar(CChunk(op))}

\* C7: no insert record suggests text with a word character, and an insert
\* operation whose tokens include a word contributes no record.
C7_InsertOnlyPunctuation ==
    DiffDone =>
        /\ \A r \in Records : r.type = "insert" => ~HasWordChar(r.suggestion)
        /\ \A op \in WordInserts :
              ~\E r \in Records : r.start = OSpan(op).start /\ r.suggestion = CChunk(op)

C7_Witness == DiffDone /\ WordInserts # {} /\ (\E r \in Records : r.type = "insert")

-----------------------------------------------------------------------------
(* Properties of project_safe_word_corrections (SpecProject).              *)

ProjectDone == fn = "project" /\ pc = "done"

\* the text before, between and after the letter-words of s
GapsOf(s) ==
    LET ms == WORD_RE_finditer(s) IN
    [i \in 1..(Len(ms) + 1) |->
        Slice(s, IF i = 1 THEN 0 ELSE ms[i - 1].end,
                 IF i = Len(ms) + 1 THEN Len(s) ELSE ms[i].start)]

\* C8, as claimed: the result is the NFC-normalised original with some of its
\* letter-words replaced by one letter-word each: the text around the words is
\* the same, in the same order.
C8_OnlyWordsChange == ProjectDone => GapsOf(result) = GapsOf(NFC(original))

\* C8, amended: the result is either the original argument itself, unchanged and
\* not normalised (when there is no safe replacement to apply), or the
\* NFC-normalised original with some of its letter-words replaced by one
\* letter-word each.
C8_OriginalOrOnlyWordsChange ==
    ProjectDone => (result = original \/ GapsOf(result) = GapsOf(NFC(original)))

C8_Witness == ProjectDone /\ result # original /\ NFC(original) # original

-----------------------------------------------------------------------------
(* Properties of correct_with_openai and index (SpecCorrect).              *)

Returned == pc \in {"returned", "responded"} /\ path # "blank"

RaisedAt(i) == i \in 1..Len(kinds) /\ kinds[i] = "raise"
FirstEmpty == kinds # <<>> /\ kinds[1] = "empty"

\* C9: once a call has raised, or the first response was empty, the function has
\* returned the input text, that call was the last one, and index reports no
\* differences and error_count 0.
C9_FailSafe ==
    ((\E i \in 1..Len(kinds) : RaisedAt(i)) \/ FirstEmpty) =>
        /\ pc \in {"returned", "responded"}
        /\ result = original
        /\ \A i \in 1..(Len(kinds) - 1) : ~RaisedAt(i)
        /\ FirstEmpty => Len(kinds) = 1
        /\ pc = "responded" => (differences = <<>> /\ error_count = 0)

C9_Witness ==
    /\ pc = "responded"
    /\ Len(kinds) >= 2 /\ RaisedAt(Len(kinds))
    /\ corrected # original

\* C10, as claimed: whatever path returns, the result has the words of the input,
\* each at most a small edit away.
C10_NoWordAddedOrRemoved ==
    Returned => ~violates_no_word_add_remove(original, result)

-----------------------------------------------------------------------------
(* Properties of undo_space_merges (SpecUndo).                             *)

UndoDone == fn = "undo" /\ pc = "done"

OrigToks == WS_TOKEN_RE_findall(original)

\* tokens i .. i+2n-2 of toks are n letter-only words separated by whitespace only
IsWordRun(toks, i, n) ==
    /\ i + 2 * n - 2 <= Len(toks)
    /\ \A k \in 0..(2 * n - 2) :
          IF k % 2 = 0 THEN is_word(toks[i + k]) ELSE is_ws(toks[i + k])

WordsOfRun(toks, i, n) == Concat([k \in 1..n |-> toks[i + 2 * (k - 1)]])

\* the corrected text is the original with the n words at token i replaced by
\* their concatenation, in any letter case, and nothing else changed
PureMergeAt(i, n) ==
    /\ IsWordRun(OrigToks, i, n)
    /\ LET pre == Concat(SubSeq(OrigToks, 1, i - 1))
           suf == Concat(SubSeq(OrigToks, i + 2 * n - 1, Len(OrigToks)))
           joined == WordsOfRun(OrigToks, i, n)
       IN  /\ Len(corrected) = Len(pre) + Len(joined) + Len(suf)
           /\ SubSeq(corrected, 1, Len(pre)) = pre
           /\ Lower(SubSeq(corrected, Len(pre) + 1, Len(pre) + Len(joined))) = Lower(joined)
           /\ SubSeq(corrected, Len(pre) + Len(joined) + 1, Len(corrected)) = suf

PureMerge ==
    \E n \in 2..max_merge_words : \E i \in 1..Len(OrigToks) : PureMergeAt(i, n)

\* the two texts have the same tokens apart from whitespace: the spacing
\* changed (the spaces around a hyphen were removed, say) and no two words
\* were joined
OnlySpacingDiffers ==
    /\ corrected # original
    /\ sig_toks(WS_TOKEN_RE_findall(original)) = sig_toks(WS_TOKEN_RE_findall(corrected))

\* C11, as claimed: when the corrected text replaces 2 to 3 consecutive
\* letter-only words of the original, separated only by whitespace, by their
\* case-insensitive concatenation, the result has the original words and the
\* original whitespace in place of the merged word and every other character of
\* the corrected text unchanged, which makes it the original; and a join that
\* is not a pure space removal is returned as it was written.
C11_PureMergeReverted ==
    UndoDone =>
        /\ PureMerge => result = original
        /\ OnlySpacingDiffers => result = corrected

=============================================================================
